---- MODULE Spec2Model ----
(***************************************************************************)
(* Model of pcd_reader (src/src/lib.rs): PointCloud::from_filename (header *)
(* scan, the two length prefixes, the compressed block, lzf decompression) *)
(* and the nine typed column accessors built on read_data /                *)
(* get_data_offset.                                                        *)
(*                                                                         *)
(* Text is modelled as sequences of one-character strings, so that         *)
(* starts_with, split(" ") and the removal of the last character are       *)
(* computed character by character.  Binary data are sequences of bytes    *)
(* (0..255).  A panic is an outcome of its own: pc = "panicked" for        *)
(* from_filename, kind = "panic" for an accessor.  The code has no error   *)
(* return values (from_filename returns PointCloud, the accessors return   *)
(* Vec<T>), so the outcomes "failed" / kind = "error" are never produced.  *)
(***************************************************************************)
EXTENDS Integers, Sequences, FiniteSets, TLC

\* Number of newline-terminated header lines the input file may hold.
MaxLines == 5

----------------------------------------------------------------------------
(* Text helpers                                                            *)

SPACE == " "
NEWLINE == "\n"

K_HASH == <<"#">>
K_VERSION == <<"V","E","R","S","I","O","N">>
K_FIELDS == <<"F","I","E","L","D","S">>
K_SIZE == <<"S","I","Z","E">>
K_TYPE == <<"T","Y","P","E">>
K_COUNT == <<"C","O","U","N","T">>
K_WIDTH == <<"W","I","D","T","H">>
K_HEIGHT == <<"H","E","I","G","H","T">>
K_VIEWPOINT == <<"V","I","E","W","P","O","I","N","T">>
K_POINTS == <<"P","O","I","N","T","S">>
K_DATA == <<"D","A","T","A">>
BINARY_COMPRESSED ==
  <<"b","i","n","a","r","y","_","c","o","m","p","r","e","s","s","e","d">>

\* str::starts_with
StartsWith(s, prefix) ==
  /\ Len(s) >= Len(prefix)
  /\ SubSeq(s, 1, Len(prefix)) = prefix

\* str::split(" "): every single space separates; empty tokens are kept.
RECURSIVE SplitAcc(_, _)
SplitAcc(s, cur) ==
  IF s = <<>> THEN <<cur>>
  ELSE IF Head(s) = SPACE THEN <<cur>> \o SplitAcc(Tail(s), <<>>)
  ELSE SplitAcc(Tail(s), Append(cur, Head(s)))

Split(s) == SplitAcc(s, <<>>)

Digits == {"0","1","2","3","4","5","6","7","8","9"}

DigitVal(c) ==
  CASE c = "0" -> 0 [] c = "1" -> 1 [] c = "2" -> 2 [] c = "3" -> 3
    [] c = "4" -> 4 [] c = "5" -> 5 [] c = "6" -> 6 [] c = "7" -> 7
    [] c = "8" -> 8 [] c = "9" -> 9

RECURSIVE DecVal(_, _)
DecVal(s, acc) ==
  IF s = <<>> THEN acc ELSE DecVal(Tail(s), 10 * acc + DigitVal(Head(s)))

\* str::parse::<usize>: an optional "+", then one or more decimal digits.
ParseUsize(tok) ==
  LET body == IF tok # <<>> /\ Head(tok) = "+" THEN Tail(tok) ELSE tok
  IN IF body # <<>> /\ \A k \in 1..Len(body) : body[k] \in Digits
     THEN [ok |-> TRUE, val |-> DecVal(body, 0)]
     ELSE [ok |-> FALSE, val |-> 0]

\* iter().map(parse::<usize>).collect() with every Result unwrapped
RECURSIVE ParseAll(_)
ParseAll(toks) ==
  IF toks = <<>> THEN [ok |-> TRUE, vals |-> <<>>]
  ELSE LET p == ParseUsize(Head(toks))
           r == ParseAll(Tail(toks))
       IN [ok |-> p.ok /\ r.ok, vals |-> <<p.val>> \o r.vals]

RECURSIVE SumSeq(_)
SumSeq(s) == IF s = <<>> THEN 0 ELSE Head(s) + SumSeq(Tail(s))

Min(a, b) == IF a <= b THEN a ELSE b

----------------------------------------------------------------------------
(* Panic messages                                                          *)

MsgEof == "byte index out of range: line[..line.len() - 1] on an empty line"
MsgNotInt == "entry POINTS in header has wrong format: its second term is not integer."
MsgPointsWords == "entry POINTS in header has wrong format: it consists of other than 2 words"
MsgDataWords == "entry DATA in header has wrong format: it consists of other than 2 words"
MsgUnsupported == "currently only supporting binary_compressed format."
MsgUnknown == "unknown header entry"
MsgLzf == "error decompressing binary_comprressed pcd data."
MsgNoField == "pointcloud does not contain required fieldname"
MsgType == "required fieldname is not a type of"
MsgIndex == "index out of bounds"
MsgSlice == "range end index out of range for slice"

----------------------------------------------------------------------------
(* Header scan: one iteration of the loop in from_filename                 *)

Continue(h) == [ctl |-> "continue", msg |-> "", h |-> h]
Break(h) == [ctl |-> "break", msg |-> "", h |-> h]
PanicH(h, m) == [ctl |-> "panic", msg |-> m, h |-> h]

\* The if / else-if chain on the line with its terminator removed.
Dispatch(h, ln) ==
  LET words == Split(ln)
      args == Tail(words)
      parsed == ParseAll(args)
  IN
  IF StartsWith(ln, K_HASH) THEN Continue(h)
  ELSE IF StartsWith(ln, K_VERSION) THEN Continue(h)
  ELSE IF StartsWith(ln, K_FIELDS) THEN
    Continue([h EXCEPT !.field_names = args])
  ELSE IF StartsWith(ln, K_SIZE) THEN
    IF parsed.ok
    THEN Continue([h EXCEPT !.size_list = parsed.vals])
    ELSE PanicH(h, MsgNotInt)
  ELSE IF StartsWith(ln, K_TYPE) THEN
    Continue([h EXCEPT !.type_list = args])
  ELSE IF StartsWith(ln, K_COUNT) THEN Continue(h)
  ELSE IF StartsWith(ln, K_WIDTH) THEN Continue(h)
  ELSE IF StartsWith(ln, K_HEIGHT) THEN Continue(h)
  ELSE IF StartsWith(ln, K_VIEWPOINT) THEN Continue(h)
  ELSE IF StartsWith(ln, K_POINTS) THEN
    IF Len(words) # 2 THEN PanicH(h, MsgPointsWords)
    ELSE IF ~ParseUsize(words[2]).ok THEN PanicH(h, MsgNotInt)
    ELSE Continue([h EXCEPT !.num_points = ParseUsize(words[2]).val])
  ELSE IF StartsWith(ln, K_DATA) THEN
    IF Len(words) # 2 THEN PanicH(h, MsgDataWords)
    ELSE IF BINARY_COMPRESSED = words[2]
         THEN Break([h EXCEPT !.data_format = words[2]])
         ELSE PanicH(h, MsgUnsupported)
  ELSE PanicH(h, MsgUnknown)

\* line[..line.len() - 1]
StripLast(raw) == SubSeq(raw, 1, Len(raw) - 1)

\* Variant of HeaderStep in which end of input is read as an ignorable line.
HeaderStepSkipEof(h, raw) ==
  IF Len(raw) = 0 THEN Continue(h) ELSE Dispatch(h, StripLast(raw))

\* read_line into a fresh String, removal of the last character, dispatch.
\* raw = <<>> is what read_line leaves at end of input (Ok(0)).
HeaderStep(h, raw) ==
  IF Len(raw) = 0 THEN PanicH(h, MsgEof) ELSE Dispatch(h, StripLast(raw))

----------------------------------------------------------------------------
(* Binary section                                                          *)

\* Read::read_exact on a BufReader: fills the front of buf with what the
\* stream still holds, leaves the remainder of buf as it was, and reports
\* UnexpectedEof when the stream held fewer bytes than buf.
ReadExact(buf, src) ==
  LET k == Min(Len(buf), Len(src))
  IN [buf |-> SubSeq(src, 1, k) \o SubSeq(buf, k + 1, Len(buf)),
      rest |-> SubSeq(src, k + 1, Len(src)),
      res |-> IF Len(src) >= Len(buf) THEN "Ok" ELSE "UnexpectedEof"]

\* LittleEndian::read_u32
ReadU32(buf) == buf[1] + 256 * buf[2] + 65536 * buf[3] + 16777216 * buf[4]

\* vec![0u8; n]
RECURSIVE Zeros(_)
Zeros(n) == IF n = 0 THEN <<>> ELSE Append(Zeros(n - 1), 0)

\* Back-reference copy of lzf::decompress: n bytes starting at the 0-based
\* position ref_pos of the output written so far (the ranges may overlap).
RECURSIVE LzfCopy(_, _, _)
LzfCopy(out, ref_pos, n) ==
  IF n = 0 THEN out
  ELSE LzfCopy(Append(out, out[ref_pos + 1]), ref_pos + 1, n - 1)

\* Main loop of lzf::decompress; pos is the 0-based input offset.
RECURSIVE LzfLoop(_, _, _, _)
LzfLoop(data, pos, out, out_len_should) ==
  IF pos >= Len(data) THEN [ok |-> TRUE, out |-> out]
  ELSE
    LET ctrl == data[pos + 1]
        p1 == pos + 1
    IN
    IF ctrl < 32 THEN
      LET n == ctrl + 1 IN
      IF Len(out) + n > out_len_should THEN [ok |-> FALSE, out |-> <<>>]
      ELSE IF p1 + n > Len(data) THEN [ok |-> FALSE, out |-> <<>>]
      ELSE LzfLoop(data, p1 + n, out \o SubSeq(data, p1 + 1, p1 + n),
                   out_len_should)
    ELSE
      LET len0 == ctrl \div 32
          hi == (ctrl % 32) * 256 + 1
      IN
      IF p1 >= Len(data) THEN [ok |-> FALSE, out |-> <<>>]
      ELSE
        LET long == (len0 = 7)
            len == IF long THEN len0 + data[p1 + 1] ELSE len0
            p2 == IF long THEN p1 + 1 ELSE p1
        IN
        IF long /\ p2 >= Len(data) THEN [ok |-> FALSE, out |-> <<>>]
        ELSE
          LET ref_offset == hi + data[p2 + 1]
              ref_pos == Len(out) - ref_offset
          IN
          IF Len(out) + len + 2 > out_len_should
            THEN [ok |-> FALSE, out |-> <<>>]
          ELSE IF ref_pos < 0 THEN [ok |-> FALSE, out |-> <<>>]
          ELSE LzfLoop(data, p2 + 1, LzfCopy(out, ref_pos, len + 2),
                       out_len_should)

\* lzf::decompress(data, out_len_should): the output holds the bytes that
\* were produced, which may be fewer than out_len_should.
LzfDecompress(data, out_len_should) ==
  IF Len(data) = 0 THEN [ok |-> FALSE, out |-> <<>>]
  ELSE LzfLoop(data, 0, <<>>, out_len_should)

----------------------------------------------------------------------------
(* Field layout and typed access                                           *)

RetOff(o) == [panic |-> "", offset |-> o]
PanicOff(m) == [panic |-> m, offset |-> 0]

\* Variant of OffsetScan that counts skipped fields instead of their widths.
RECURSIVE OffsetScanCountFields(_, _, _, _, _, _)
OffsetScanCountFields(h, fieldname, type_string, item_size, i, data_offset) ==
  IF i > Len(h.field_names) THEN RetOff(data_offset)
  ELSE IF h.field_names[i] = fieldname THEN
    IF i > Len(h.type_list) THEN PanicOff(MsgIndex)
    ELSE IF h.type_list[i] # type_string THEN PanicOff(MsgType)
    ELSE IF i > Len(h.size_list) THEN PanicOff(MsgIndex)
    ELSE IF h.size_list[i] # item_size THEN PanicOff(MsgType)
    ELSE RetOff(data_offset)
  ELSE IF i > Len(h.size_list) THEN PanicOff(MsgIndex)
  ELSE OffsetScanCountFields(h, fieldname, type_string, item_size, i + 1,
                             data_offset + 1)

\* The for loop of get_data_offset from (1-based) index i on.
RECURSIVE OffsetScan(_, _, _, _, _, _)
OffsetScan(h, fieldname, type_string, item_size, i, data_offset) ==
  IF i > Len(h.field_names) THEN RetOff(data_offset)
  ELSE IF h.field_names[i] = fieldname THEN
    IF i > Len(h.type_list) THEN PanicOff(MsgIndex)
    ELSE IF h.type_list[i] # type_string THEN PanicOff(MsgType)
    ELSE IF i > Len(h.size_list) THEN PanicOff(MsgIndex)
    ELSE IF h.size_list[i] # item_size THEN PanicOff(MsgType)
    ELSE RetOff(data_offset)
  ELSE IF i > Len(h.size_list) THEN PanicOff(MsgIndex)
  ELSE OffsetScan(h, fieldname, type_string, item_size, i + 1,
                  data_offset + h.size_list[i])

get_data_offset(h, fieldname, type_string, item_size) ==
  OffsetScan(h, fieldname, type_string, item_size, 1, 0)

Column(d) == [kind |-> "column", msg |-> "", data |-> d]
PanicCol(m) == [kind |-> "panic", msg |-> m, data |-> <<>>]

\* read_buffer_fn: copy_u8_into and the LittleEndian read_*_into functions
\* take one element per item_size bytes of the slice, in order.  An element
\* is kept as the bytes it is read from, least significant first (one byte
\* for copy_u8_into).
RECURSIVE Chunks(_, _)
Chunks(src, item_size) ==
  IF src = <<>> THEN <<>>
  ELSE <<SubSeq(src, 1, item_size)>>
         \o Chunks(SubSeq(src, item_size + 1, Len(src)), item_size)

Decode(src, item_size) == Chunks(src, item_size)

\* read_data into a data_buffer of num_points elements.
read_data(h, buffer, fieldname, type_string, item_size) ==
  IF ~(\E i \in 1..Len(h.field_names) : h.field_names[i] = fieldname)
  THEN PanicCol(MsgNoField)
  ELSE
    LET o == get_data_offset(h, fieldname, type_string, item_size) IN
    IF o.panic # "" THEN PanicCol(o.panic)
    ELSE
      LET lo == o.offset * h.num_points
          hi == (o.offset + item_size) * h.num_points
      IN IF hi > Len(buffer) THEN PanicCol(MsgSlice)
         ELSE Column(Decode(SubSeq(buffer, lo + 1, hi), item_size))

----------------------------------------------------------------------------
(* Input files                                                             *)

RECURSIVE Join(_)
Join(words) ==
  IF Len(words) = 1 THEN Head(words)
  ELSE Head(words) \o <<SPACE>> \o Join(Tail(words))

T_x == <<"x">>
T_i == <<"i">>
T_q == <<"q">>
T_F == <<"F">>
T_U == <<"U">>
T_I == <<"I">>
T_1 == <<"1">>
T_2 == <<"2">>
T_3 == <<"3">>
T_4 == <<"4">>
T_ascii == <<"a","s","c","i","i">>

\* Header lines (without their terminator) the file may contain.
LineSet ==
  { Join(<<K_HASH, T_x>>),
    Join(<<K_VERSION, T_1>>),
    Join(<<K_FIELDS, T_x, T_i>>),
    Join(<<K_FIELDS, T_x, T_i, T_i>>),
    Join(<<K_SIZE, T_4, T_1>>),
    Join(<<K_SIZE, T_4, T_1, T_1>>),
    Join(<<K_SIZE, T_4>>),
    Join(<<K_SIZE, T_4, T_x>>),
    Join(<<K_TYPE, T_F, T_U>>),
    Join(<<K_TYPE, T_F, T_U, T_U>>),
    Join(<<K_COUNT, T_1, T_1>>),
    Join(<<K_WIDTH, T_2>>),
    Join(<<K_HEIGHT, T_1>>),
    Join(<<K_VIEWPOINT, T_1>>),
    Join(<<K_POINTS, T_2>>),
    Join(<<K_POINTS, T_1>>),
    Join(<<K_POINTS>>),
    Join(<<K_POINTS, T_x>>),
    Join(<<K_POINTS \o <<"X">>, T_3>>),
    Join(<<K_DATA, BINARY_COMPRESSED>>),
    Join(<<K_DATA, BINARY_COMPRESSED>>) \o <<"\r">>,
    Join(<<K_DATA, T_ascii>>),
    Join(<<K_DATA>>),
    <<"F","O","O">>,
    <<>> }

\* What may follow the last newline of a file that ends inside its header.
FragSet ==
  { Join(<<K_DATA, BINARY_COMPRESSED>>),
    Join(<<K_DATA, BINARY_COMPRESSED>>) \o <<"\r">>,
    Join(<<K_POINTS, T_1, T_2>>),
    K_HASH }

\* u32 little-endian
LE32(n) ==
  <<n % 256, (n \div 256) % 256, (n \div 65536) % 256, (n \div 16777216) % 256>>

RECURSIVE PayloadBytes(_)
PayloadBytes(n) ==
  IF n = 0 THEN <<>> ELSE Append(PayloadBytes(n - 1), 10 + n)

\* One literal run holding the n payload bytes.
LiteralBlock(n) == <<n - 1>> \o PayloadBytes(n)

GoodBinary(n) == LE32(n + 1) \o LE32(n) \o LiteralBlock(n)

PayloadLens == {5, 10, 12}

Prefixes(s) == { SubSeq(s, 1, k) : k \in 0..Len(s) }

\* What may follow the DATA line.
Tails ==
  { GoodBinary(n) : n \in PayloadLens }
    \cup Prefixes(GoodBinary(5))
    \cup { LE32(6) \o LE32(10) \o LiteralBlock(5),
           LE32(6) \o LE32(3) \o LiteralBlock(5),
           LE32(6) \o LE32(5) \o <<0, 7, 32, 0, 0, 9>>,
           LE32(2) \o LE32(5) \o <<32, 0>> }

QueryNames == {T_x, T_i, T_q}

----------------------------------------------------------------------------
(* State                                                                   *)

VARIABLES
  pc,                  \* position in from_filename, or its outcome
  panic_msg,           \* message of the panic that ended from_filename
  linesLeft,           \* newline-terminated header lines not yet read
  hasFrag,             \* the header region ends in an unterminated line
  unread,              \* bytes of the file after the DATA line, not yet read
  raw_line,            \* the last header line as read_line returned it
  data_format, num_points, field_names, size_list, type_list,
  u32_size_buffer, compressed_size, uncompressed_size,
  r_csize, r_usize, r_block,   \* the discarded results of the read_exact calls
  lzf_result,          \* "none", "Ok" or "Err"
  decompressed_buffer,
  call,                \* the last accessor call
  ret                  \* its outcome

vars ==
  <<pc, panic_msg, linesLeft, hasFrag, unread, raw_line, data_format, num_points,
    field_names, size_list, type_list, u32_size_buffer, compressed_size,
    uncompressed_size, r_csize, r_usize, r_block, lzf_result,
    decompressed_buffer, call, ret>>

hdrVars == <<data_format, num_points, field_names, size_list, type_list>>
binVars ==
  <<u32_size_buffer, compressed_size, uncompressed_size, r_csize, r_usize,
    r_block, lzf_result, decompressed_buffer>>
fileVars == <<linesLeft, hasFrag, unread>>
callVars == <<call, ret>>

NoLine == <<"(none)">>
NoCall == [fn |-> "", fieldname |-> <<>>, type_string |-> <<>>, item_size |-> 0]
NoRet == [kind |-> "none", msg |-> "", data |-> <<>>]

\* PointCloudHeader
Header ==
  [data_format |-> data_format, num_points |-> num_points,
   field_names |-> field_names, size_list |-> size_list,
   type_list |-> type_list]

Init ==
  /\ pc = "header"
  /\ panic_msg = ""
  /\ linesLeft \in 0..MaxLines
  /\ hasFrag \in BOOLEAN
  /\ unread = <<>>
  /\ raw_line = NoLine
  /\ data_format = <<>>
  /\ num_points = 0
  /\ field_names = <<>>
  /\ size_list = <<>>
  /\ type_list = <<>>
  /\ u32_size_buffer = <<>>
  /\ compressed_size = 0
  /\ uncompressed_size = 0
  /\ r_csize = "none"
  /\ r_usize = "none"
  /\ r_block = "none"
  /\ lzf_result = "none"
  /\ decompressed_buffer = <<>>
  /\ call = NoCall
  /\ ret = NoRet

----------------------------------------------------------------------------
(* from_filename                                                           *)

\* One iteration of the header loop on the next line of the file.
HeaderLine ==
  /\ pc = "header"
  /\ \E raw \in (IF linesLeft > 0 THEN { l \o <<NEWLINE>> : l \in LineSet }
                 ELSE IF hasFrag THEN FragSet ELSE { <<>> }) :
       LET r == HeaderStep(Header, raw)
           terminated == linesLeft > 0
       IN
       /\ raw_line' = raw
       /\ data_format' = r.h.data_format
       /\ num_points' = r.h.num_points
       /\ field_names' = r.h.field_names
       /\ size_list' = r.h.size_list
       /\ type_list' = r.h.type_list
       /\ pc' = CASE r.ctl = "continue" -> "header"
                  [] r.ctl = "break" -> "csize"
                  [] r.ctl = "panic" -> "panicked"
       /\ panic_msg' = r.msg
       /\ IF r.ctl = "break"
          THEN /\ linesLeft' = 0
               /\ hasFrag' = FALSE
               /\ unread' \in (IF terminated THEN Tails ELSE { <<>> })
          ELSE /\ linesLeft' = IF terminated THEN linesLeft - 1 ELSE 0
               /\ hasFrag' = (terminated /\ hasFrag)
               /\ unread' = unread
  /\ UNCHANGED <<binVars, callVars>>

\* u32_size_buffer = vec![0u8; 4]; read_exact; read_u32 -> compressed_size
ReadCompressedSize ==
  /\ pc = "csize"
  /\ LET r == ReadExact(Zeros(4), unread) IN
       /\ u32_size_buffer' = r.buf
       /\ unread' = r.rest
       /\ r_csize' = r.res
       /\ compressed_size' = ReadU32(r.buf)
  /\ pc' = "usize"
  /\ UNCHANGED <<panic_msg, linesLeft, hasFrag, raw_line, hdrVars,
                 uncompressed_size, r_usize, r_block, lzf_result,
                 decompressed_buffer, callVars>>

\* read_exact into the same u32_size_buffer; read_u32 -> uncompressed_size
ReadUncompressedSize ==
  /\ pc = "usize"
  /\ LET r == ReadExact(u32_size_buffer, unread) IN
       /\ u32_size_buffer' = r.buf
       /\ unread' = r.rest
       /\ r_usize' = r.res
       /\ uncompressed_size' = ReadU32(r.buf)
  /\ pc' = "block"
  /\ UNCHANGED <<panic_msg, linesLeft, hasFrag, raw_line, hdrVars,
                 compressed_size, r_csize, r_block, lzf_result,
                 decompressed_buffer, callVars>>

\* compressed_size_buffer = vec![0u8; compressed_size]; read_exact;
\* lzf::decompress(..).expect(..); PointCloud { .. }
ReadBlockAndDecompress ==
  /\ pc = "block"
  /\ LET r == ReadExact(Zeros(compressed_size), unread)
         d == LzfDecompress(r.buf, uncompressed_size)
     IN
       /\ unread' = r.rest
       /\ r_block' = r.res
       /\ lzf_result' = IF d.ok THEN "Ok" ELSE "Err"
       /\ decompressed_buffer' = d.out
       /\ pc' = IF d.ok THEN "ready" ELSE "panicked"
       /\ panic_msg' = IF d.ok THEN "" ELSE MsgLzf
  /\ UNCHANGED <<linesLeft, hasFrag, raw_line, hdrVars, u32_size_buffer,
                 compressed_size, uncompressed_size, r_csize, r_usize,
                 callVars>>

----------------------------------------------------------------------------
(* Typed accessors                                                         *)

Access(fn, type_string, item_size) ==
  /\ pc = "ready"
  /\ \E fieldname \in QueryNames :
       /\ call' = [fn |-> fn, fieldname |-> fieldname,
                   type_string |-> type_string, item_size |-> item_size]
       /\ ret' = read_data(Header, decompressed_buffer, fieldname,
                           type_string, item_size)
  /\ UNCHANGED <<pc, panic_msg, fileVars, raw_line, hdrVars, binVars>>

get_data_f32 == Access("get_data_f32", T_F, 4)
get_data_f64 == Access("get_data_f64", T_F, 8)
get_data_u8 == Access("get_data_u8", T_U, 1)
get_data_u16 == Access("get_data_u16", T_U, 2)
get_data_u32 == Access("get_data_u32", T_U, 4)
get_data_u64 == Access("get_data_u64", T_U, 8)
get_data_i16 == Access("get_data_i16", T_I, 2)
get_data_i32 == Access("get_data_i32", T_I, 4)
get_data_i64 == Access("get_data_i64", T_I, 8)

from_filename ==
  \/ HeaderLine
  \/ ReadCompressedSize
  \/ ReadUncompressedSize
  \/ ReadBlockAndDecompress

Next ==
  \/ HeaderLine
  \/ ReadCompressedSize
  \/ ReadUncompressedSize
  \/ ReadBlockAndDecompress
  \/ get_data_f32
  \/ get_data_f64
  \/ get_data_u8
  \/ get_data_u16
  \/ get_data_u32
  \/ get_data_u64
  \/ get_data_i16
  \/ get_data_i32
  \/ get_data_i64

Spec == Init /\ [][Next]_vars

\* from_filename is one blocking call: once started it runs to its end.
LiveSpec == Init /\ [][Next]_vars /\ WF_vars(from_filename)

----------------------------------------------------------------------------
(* Properties                                                              *)

Called == call # NoCall

\* Index of the first field named f, 0 when there is none.
FirstIndex(f) ==
  IF \E i \in 1..Len(field_names) : field_names[i] = f
  THEN CHOOSE i \in 1..Len(field_names) :
         /\ field_names[i] = f
         /\ \A j \in 1..(i - 1) : field_names[j] # f
  ELSE 0

\* Field i has a declared type tag and a declared byte width.
HasDecl(i) == i >= 1 /\ i <= Len(type_list) /\ i <= Len(size_list)

\* A header line was read and its last character removed.
HasLine == raw_line # NoLine /\ raw_line # <<>>

\* That line, as the dispatch sees it.
line == StripLast(raw_line)

\* A header line was read together with its newline.
Terminated == HasLine /\ raw_line[Len(raw_line)] = NEWLINE

FirstToken(ln) == Head(Split(ln))

Keywords ==
  {K_VERSION, K_FIELDS, K_SIZE, K_TYPE, K_COUNT, K_WIDTH, K_HEIGHT,
   K_VIEWPOINT, K_POINTS, K_DATA}

Recognized(tok) == StartsWith(tok, K_HASH) \/ tok \in Keywords

ShortRead ==
  \/ r_csize = "UnexpectedEof"
  \/ r_usize = "UnexpectedEof"
  \/ r_block = "UnexpectedEof"

\* C1: on a point cloud loaded from a file that was read in full, the
\* accessor whose (type tag, byte width) equals the declared
\* (type_list[i], size_list[i]) of a declared field returns a column of
\* exactly num_points elements and never fails.
C1_MatchingAccessorReturnsNumPoints ==
  (/\ pc = "ready"
   /\ ~ShortRead
   /\ Called
   /\ \E i \in 1..Len(field_names) :
        /\ field_names[i] = call.fieldname
        /\ HasDecl(i)
        /\ type_list[i] = call.type_string
        /\ size_list[i] = call.item_size)
  => (ret.kind = "column" /\ Len(ret.data) = num_points)

\* C2: on a point cloud loaded from a file that was read in full, a field
\* that is present but declared, at its first occurrence, with another type
\* tag or byte width yields a TypeMismatch error value: the call neither
\* panics nor returns a column.
C2_MismatchIsErrorValue ==
  (/\ Called
   /\ ~ShortRead
   /\ FirstIndex(call.fieldname) > 0
   /\ HasDecl(FirstIndex(call.fieldname))
   /\ \/ type_list[FirstIndex(call.fieldname)] # call.type_string
      \/ size_list[FirstIndex(call.fieldname)] # call.item_size)
  => (ret.kind = "error" /\ ret.msg = "TypeMismatch")

\* C3: on a point cloud loaded from a file that was read in full, a field
\* name that does not occur in field_names yields a FieldNotFound error
\* value: no column, and no panic.
C3_AbsentIsErrorValue ==
  (Called /\ ~ShortRead /\ FirstIndex(call.fieldname) = 0)
  => (ret.kind = "error" /\ ret.msg = "FieldNotFound")

\* C4: a newline-terminated DATA line whose value is not "binary_compressed"
\* makes from_filename return an UnsupportedFormat failure value: no
\* PointCloud, no byte of the binary section read, no panic.
C4_UnsupportedIsErrorValue ==
  (/\ Terminated
   /\ FirstToken(line) = K_DATA
   /\ Len(Split(line)) = 2
   /\ Split(line)[2] # BINARY_COMPRESSED)
  => (pc = "failed" /\ panic_msg = "UnsupportedFormat" /\ r_csize = "none")

\* C5: every PointCloud returned by from_filename (here: from a file that was
\* read in full) has payload length = (sum of size_list) * num_points.
C5_LayoutInvariant ==
  (pc = "ready" /\ ~ShortRead)
  => Len(decompressed_buffer) = SumSeq(size_list) * num_points

\* C6: every PointCloud returned by from_filename (here: from a file that was
\* read in full) has field_names, size_list and type_list of one length.
C6_ListsAligned ==
  (pc = "ready" /\ ~ShortRead)
  => (Len(field_names) = Len(size_list) /\ Len(size_list) = Len(type_list))

C8_ShortReadYieldsNoPointCloud ==
  ShortRead => pc # "ready"

\* C9: a header line whose first token is not a directive keyword (nor a
\* comment) ends the load with the unknown-directive failure, the header
\* fields untouched.
C9_UnknownFirstTokenFails ==
  (HasLine /\ ~Recognized(FirstToken(line)))
  => (pc = "panicked" /\ panic_msg = MsgUnknown)

\* C10: from_filename ends, either with a PointCloud or with a failure; it
\* does not loop in the header when the input ends without a DATA line, and a
\* PointCloud exists only once the DATA line was seen and decompression
\* succeeded.
C10_LoadTerminates ==
  /\ [](pc = "ready" =>
          (data_format = BINARY_COMPRESSED /\ lzf_result = "Ok"))
  /\ <>(pc \in {"ready", "panicked"})

\* C10 witness: the input ended in the header, no DATA line seen, and the
\* load ended with a failure.
C10_Witness ==
  /\ pc = "panicked"
  /\ panic_msg = MsgEof
  /\ data_format = <<>>
  /\ raw_line = <<>>

====
